---- MODULE Spec2Model ----
(***************************************************************************)
(* Mirror generation pipeline of the snippet-mirror scripts:               *)
(*   generate-snippet-mirror.js      (src/unnamed/part_001, lines 1-482)   *)
(*   generate-all-snippet-mirrors.js (src/generate-all-snippet-mirrors.js) *)
(*                                                                         *)
(* Strings are sequences of one-character strings, so that trimming,       *)
(* regular-expression scanning and split/join are computed and not assumed.*)
(***************************************************************************)
EXTENDS Integers, Sequences, FiniteSets, TLC

VARIABLES
    pc,        \* position of the running script / function
    format,    \* the requested target format
    text,      \* input string of the function under execution
    tokens,    \* mergeAdjacent*: the token array after step 1
    merged,    \* mergeAdjacent*: the merged array after step 2
    out,       \* the string returned by the first application
    out2,      \* the string returned when the pass is applied to `out`
    xml,       \* injectFieldCodeSentinels: the parsed tree before the walk
    xmlOut,    \* injectFieldCodeSentinels: the tree after the walk
    files,     \* file system: the paths of the regular files
    dirs,      \* file system: the paths of the directories
    docxFiles, \* generateAllMirrors: the enumerated source documents
    idx,       \* generateAllMirrors: index of the next document of the loop
    failures,  \* generateAllMirrors: {docxPath, error} of each conversion that threw
    unlinked,  \* the paths removeStaleMirrors has removed (rmSync, rmdirSync)
    clean,     \* batch main: args.clean
    attempts,  \* generateAllMirrors: the calls of generateSnippetMirror so far
    reconcileRuns, \* how often removeStaleMirrors was called
    rmError,   \* the path on which fs.rmSync threw, <<>> if none did
    reported,  \* batch main: the summary of lines 163-168 was printed
    exitCode,  \* the exit status of the process, -1 while it runs
    visitor,   \* visitXml: which visitor is passed
    calls,     \* visitXml: the paths of the values the visitor was called on
    request,   \* generateSnippetMirror: the docxPath it is called with
    debugXml,  \* generateSnippetMirror: the debug flag
    env,       \* what the file system and the converter will do when asked
    result,    \* generateSnippetMirror: how the call ended
    spawns,    \* how often the converter process was spawned
    tmpFiles,  \* the temporary archives that exist in os.tmpdir()
    contents,  \* the content of each mirror file
    inFlight   \* the documents whose generateSnippetMirror call has not settled

textVars == <<text, tokens, merged, out, out2>>
xmlVars == <<xml, xmlOut, visitor, calls>>
fsVars == <<files, dirs, docxFiles, idx, failures, unlinked>>
runVars == <<clean, attempts, reconcileRuns, rmError, reported, exitCode>>
flowVars == <<request, debugXml, env, result, spawns, tmpFiles, contents, inFlight>>
vars == <<pc, format, textVars, xmlVars, fsVars, runVars, flowVars>>

(***************************************************************************)
(* Bounds of the model.                                                    *)
(***************************************************************************)
MaxPieces == 5
MaxRuns == 2

(***************************************************************************)
(* String helpers (JavaScript String.prototype.trim, /^\s*$/, split/join). *)
(***************************************************************************)
WhiteSpace == {" ", "\n", "\t"}

RECURSIVE Flatten(_)
Flatten(ss) == IF ss = <<>> THEN <<>> ELSE Head(ss) \o Flatten(Tail(ss))

IsBlank(s) == \A i \in 1..Len(s) : s[i] \in WhiteSpace

RECURSIVE TrimStart(_)
TrimStart(s) ==
    IF s # <<>> /\ Head(s) \in WhiteSpace THEN TrimStart(Tail(s)) ELSE s

RECURSIVE TrimEnd(_)
TrimEnd(s) ==
    IF s # <<>> /\ s[Len(s)] \in WhiteSpace
    THEN TrimEnd(SubSeq(s, 1, Len(s) - 1))
    ELSE s

Trim(s) == TrimEnd(TrimStart(s))

HasAt(s, i, pat) ==
    /\ i >= 1
    /\ i + Len(pat) - 1 <= Len(s)
    /\ \A k \in 1..Len(pat) : s[i + k - 1] = pat[k]

Contains(s, pat) == \E i \in 1..Len(s) : HasAt(s, i, pat)

IsPrefix(p, s) == Len(p) <= Len(s) /\ SubSeq(s, 1, Len(p)) = p
IsSuffix(p, s) == Len(p) <= Len(s) /\ SubSeq(s, Len(s) - Len(p) + 1, Len(s)) = p

\* s.replace(pat, rep) with a string pattern: the first occurrence only
RECURSIVE ReplaceFirst(_, _, _)
ReplaceFirst(s, pat, rep) ==
    IF s = <<>> THEN <<>>
    ELSE IF HasAt(s, 1, pat)
         THEN rep \o SubSeq(s, Len(pat) + 1, Len(s))
         ELSE <<Head(s)>> \o ReplaceFirst(Tail(s), pat, rep)

\* s.split(pat).join(rep): every leftmost, non-overlapping occurrence
RECURSIVE SplitJoin(_, _, _)
SplitJoin(s, pat, rep) ==
    IF s = <<>> THEN <<>>
    ELSE IF HasAt(s, 1, pat)
         THEN rep \o SplitJoin(SubSeq(s, Len(pat) + 1, Len(s)), pat, rep)
         ELSE <<Head(s)>> \o SplitJoin(Tail(s), pat, rep)

SENTINEL_PRE == <<"=", "=", ":", ":">>
SENTINEL_POST == <<":", ":", "=", "=">>

\* the backtick character (a TLA+ string cannot hold one)
BACKTICK == "'"
CURLY_OPEN == <<"{", "{">>
CURLY_CLOSE == <<"}", "}">>

isHtmlFormat(f) == f = "html"

(***************************************************************************)
(* Step 1 of both merge functions: tokenize with the global regex.         *)
(***************************************************************************)
Token(type, value) == [type |-> type, value |-> value]

SetMin(S) == CHOOSE x \in S : \A y \in S : x <= y

\* /`([^`]+)`/ matched at index i: the index of the closing backtick, or 0
CodeSpanEndAt(s, i) ==
    IF i + 2 <= Len(s) /\ s[i] = BACKTICK /\ s[i + 1] # BACKTICK
    THEN LET closers == {k \in (i + 2)..Len(s) : s[k] = BACKTICK}
         IN  IF closers = {} THEN 0 ELSE SetMin(closers)
    ELSE 0

\* /\{\{([\s\S]*?)\}\}/ matched at index i: index of the last "}" , or 0
CurlyBlockEndAt(s, i) ==
    IF HasAt(s, i, CURLY_OPEN)
    THEN LET closers == {k \in (i + 2)..Len(s) : HasAt(s, k, CURLY_CLOSE)}
         IN  IF closers = {} THEN 0 ELSE SetMin(closers) + 1
    ELSE 0

MatchEndAt(kind, s, i) ==
    IF kind = "code" THEN CodeSpanEndAt(s, i) ELSE CurlyBlockEndAt(s, i)

DelimLen(kind) == IF kind = "code" THEN 1 ELSE 2

\* regex.exec from lastIndex: the leftmost index with a match, or 0
ExecFrom(kind, s, lastIndex) ==
    LET starts == {i \in lastIndex..Len(s) : MatchEndAt(kind, s, i) # 0}
    IN  IF starts = {} THEN 0 ELSE SetMin(starts)

RECURSIVE Tokenize(_, _, _)
Tokenize(kind, s, lastIndex) ==
    LET start == ExecFrom(kind, s, lastIndex)
    IN  IF start = 0
        THEN IF lastIndex <= Len(s)
             THEN <<Token("text", SubSeq(s, lastIndex, Len(s)))>>
             ELSE <<>>
        ELSE LET end == MatchEndAt(kind, s, start)
                 d == DelimLen(kind)
             IN  (IF start > lastIndex
                  THEN <<Token("text", SubSeq(s, lastIndex, start - 1))>>
                  ELSE <<>>)
                 \o <<Token(kind, SubSeq(s, start + d, end - d))>>
                 \o Tokenize(kind, s, end + 1)

(***************************************************************************)
(* Step 2: merge marked spans separated only by whitespace text tokens.    *)
(***************************************************************************)
\* the lookahead without its loop: only the next span is folded in
LookaheadOnce(kind, toks, combined, j) ==
    IF /\ j + 1 <= Len(toks)
       /\ toks[j].type = "text"
       /\ IsBlank(toks[j].value)
       /\ toks[j + 1].type = kind
    THEN [combined |-> Trim(combined \o <<" ">> \o Trim(toks[j + 1].value)),
          j |-> j + 2]
    ELSE [combined |-> combined, j |-> j]

\* the lookahead without the whitespace test: any text token is skipped
RECURSIVE LookaheadAnyText(_, _, _, _)
LookaheadAnyText(kind, toks, combined, j) ==
    IF /\ j + 1 <= Len(toks)
       /\ toks[j].type = "text"
       /\ toks[j + 1].type = kind
    THEN LookaheadAnyText(kind, toks,
                          Trim(combined \o <<" ">> \o Trim(toks[j + 1].value)),
                          j + 2)
    ELSE [combined |-> combined, j |-> j]

RECURSIVE Lookahead(_, _, _, _)
Lookahead(kind, toks, combined, j) ==
    IF /\ j + 1 <= Len(toks)
       /\ toks[j].type = "text"
       /\ IsBlank(toks[j].value)
       /\ toks[j + 1].type = kind
    THEN Lookahead(kind, toks,
                   Trim(combined \o <<" ">> \o Trim(toks[j + 1].value)), j + 2)
    ELSE [combined |-> combined, j |-> j]

RECURSIVE MergeLoop(_, _, _)
MergeLoop(kind, toks, i) ==
    IF i > Len(toks) THEN <<>>
    ELSE IF toks[i].type # kind
         THEN <<toks[i]>> \o MergeLoop(kind, toks, i + 1)
         ELSE LET r == Lookahead(kind, toks, Trim(toks[i].value), i + 1)
              IN  <<Token(kind, r.combined)>> \o MergeLoop(kind, toks, r.j)

(***************************************************************************)
(* Step 3: rebuild the string.                                             *)
(***************************************************************************)
Open(kind) == IF kind = "code" THEN <<BACKTICK>> ELSE CURLY_OPEN
Close(kind) == IF kind = "code" THEN <<BACKTICK>> ELSE CURLY_CLOSE

Render(kind, t) ==
    IF t.type = kind THEN Open(kind) \o t.value \o Close(kind) ELSE t.value

Rebuild(kind, toks) == Flatten([i \in 1..Len(toks) |-> Render(kind, toks[i])])

mergeAdjacentCodeSpans(markdown) ==
    Rebuild("code", MergeLoop("code", Tokenize("code", markdown, 1), 1))

mergeAdjacentHtmlCurlyBlocks(html) ==
    Rebuild("curly", MergeLoop("curly", Tokenize("curly", html, 1), 1))

KindOf(f) == IF isHtmlFormat(f) THEN "curly" ELSE "code"

MergePass(f, s) ==
    IF isHtmlFormat(f) THEN mergeAdjacentHtmlCurlyBlocks(s)
    ELSE mergeAdjacentCodeSpans(s)

postProcessPandocOutput(raw, f) ==
    IF isHtmlFormat(f)
    THEN mergeAdjacentHtmlCurlyBlocks(
             SplitJoin(SplitJoin(raw, SENTINEL_PRE, CURLY_OPEN),
                       SENTINEL_POST, CURLY_CLOSE))
    ELSE mergeAdjacentCodeSpans(
             SplitJoin(SplitJoin(raw, SENTINEL_PRE, <<BACKTICK>>),
                       SENTINEL_POST, <<BACKTICK>>))

(***************************************************************************)
(* The xml2js tree.  A node is a string, an array or an object; an object  *)
(* keeps its keys in insertion order (keys[i] names kids[i]).              *)
(***************************************************************************)
Str(s) == [t |-> "str", s |-> s, keys |-> <<>>, kids |-> <<>>]
Arr(items) == [t |-> "arr", s |-> <<>>, keys |-> <<>>, kids |-> items]
Obj(keys, kids) == [t |-> "obj", s |-> <<>>, keys |-> keys, kids |-> kids]

isObject(value) == value.t = "obj"
isArray(value) == value.t = "arr"

hasOwnProperty(obj, key) == \E i \in 1..Len(obj.keys) : obj.keys[i] = key

KeyIndex(obj, key) == CHOOSE i \in 1..Len(obj.keys) : obj.keys[i] = key

Get(obj, key) == obj.kids[KeyIndex(obj, key)]

\* obj[key] = value: an existing key keeps its place, a new one goes last
Set(obj, key, value) ==
    IF hasOwnProperty(obj, key)
    THEN [obj EXCEPT !.kids[KeyIndex(obj, key)] = value]
    ELSE [obj EXCEPT !.keys = Append(@, key), !.kids = Append(@, value)]

RECURSIVE extractXmlElementTextContent(_)
extractXmlElementTextContent(xmlElement) ==
    IF xmlElement.t = "str" THEN xmlElement.s
    ELSE IF isArray(xmlElement)
    THEN Flatten([i \in 1..Len(xmlElement.kids) |->
                     extractXmlElementTextContent(xmlElement.kids[i])])
    ELSE IF hasOwnProperty(xmlElement, "_") /\ Get(xmlElement, "_").t = "str"
    THEN Get(xmlElement, "_").s
    ELSE <<>>

\* s.replace(/\s+/g, ' ')
RECURSIVE CollapseWhiteSpace(_)
CollapseWhiteSpace(s) ==
    IF s = <<>> THEN <<>>
    ELSE IF Head(s) \in WhiteSpace
         THEN <<" ">> \o CollapseWhiteSpace(TrimStart(s))
         ELSE <<Head(s)>> \o CollapseWhiteSpace(Tail(s))

\* the strings one visited object pushes on instrTexts
PushIfText(x) ==
    LET s == Trim(extractXmlElementTextContent(x))
    IN  IF s # <<>> THEN <<s>> ELSE <<>>

InstrTextsOf(obj) ==
    IF hasOwnProperty(obj, "w:instrText")
    THEN LET v == Get(obj, "w:instrText")
         IN  IF isArray(v)
             THEN Flatten([i \in 1..Len(v.kids) |-> PushIfText(v.kids[i])])
             ELSE PushIfText(v)
    ELSE <<>>

\* visitXml(value, visitor) with the visitor of takeFieldInstructionString:
\* the strings pushed, in the order of the walk
RECURSIVE CollectInstrTexts(_)
CollectInstrTexts(value) ==
    IF isArray(value)
    THEN Flatten([i \in 1..Len(value.kids) |-> CollectInstrTexts(value.kids[i])])
    ELSE IF ~isObject(value) THEN <<>>
    ELSE InstrTextsOf(value)
         \o Flatten([i \in 1..Len(value.kids) |-> CollectInstrTexts(value.kids[i])])

RECURSIVE JoinWith(_, _)
JoinWith(ss, sep) ==
    IF ss = <<>> THEN <<>>
    ELSE IF Len(ss) = 1 THEN ss[1]
    ELSE ss[1] \o sep \o JoinWith(Tail(ss), sep)

takeFieldInstructionString(runLikeObject) ==
    Trim(CollapseWhiteSpace(JoinWith(CollectInstrTexts(runLikeObject), <<" ">>)))

\* a slip: the run's w:t is overwritten instead of appended to
OverwriteSentinelText(run, sentinelText) ==
    Set(run, "w:t", Arr(<<Str(sentinelText)>>))

\* lines 218-224: the sentinel goes last in the run's w:t
AppendSentinelText(run, sentinelText) ==
    IF ~hasOwnProperty(run, "w:t")
    THEN Set(run, "w:t", Arr(<<Str(sentinelText)>>))
    ELSE IF isArray(Get(run, "w:t"))
    THEN Set(run, "w:t", Arr(Append(Get(run, "w:t").kids, Str(sentinelText))))
    ELSE Set(run, "w:t", Arr(<<Get(run, "w:t"), Str(sentinelText)>>))

RECURSIVE AppendEach(_, _)
AppendEach(run, texts) ==
    IF texts = <<>> THEN run
    ELSE AppendEach(AppendSentinelText(run, SENTINEL_PRE \o Head(texts) \o SENTINEL_POST),
                    Tail(texts))

\* a slip: one sentinel per instruction fragment
InjectPerFragment(run) ==
    IF ~isObject(run) THEN run
    ELSE AppendEach(run, CollectInstrTexts(run))

\* a slip: the instruction string is not tested for being empty
InjectEvenIfEmpty(run) ==
    IF ~isObject(run) THEN run
    ELSE LET instr == takeFieldInstructionString(run)
             humanReadable == Trim(CollapseWhiteSpace(instr))
         IN  AppendSentinelText(run, SENTINEL_PRE \o humanReadable \o SENTINEL_POST)

\* the callback of runs.forEach (lines 202-225)
InjectIntoRun(run) ==
    IF ~isObject(run) THEN run
    ELSE LET instr == takeFieldInstructionString(run)
         IN  IF instr = <<>> THEN run
             ELSE LET humanReadable == Trim(CollapseWhiteSpace(instr))
                  IN  AppendSentinelText(run,
                          SENTINEL_PRE \o humanReadable \o SENTINEL_POST)

\* the visitor of injectFieldCodeSentinels (lines 195-226)
SentinelVisitor(obj) ==
    IF ~hasOwnProperty(obj, "w:r") THEN obj
    ELSE LET runs == Get(obj, "w:r")
         IN  IF ~isArray(runs) THEN obj
             ELSE Set(obj, "w:r",
                      Arr([i \in 1..Len(runs.kids) |-> InjectIntoRun(runs.kids[i])]))

\* a visitor that adds a mapping to an object with runs and turns the
\* leaves of a w:t into a mapping
GrowVisitor(obj) ==
    LET grown == IF hasOwnProperty(obj, "w:r")
                 THEN Set(obj, "w:sectPr",
                          Obj(<<"w:pgSz">>, <<Arr(<<Obj(<<"$">>, <<Str(<<"p">>)>>)>>)>>))
                 ELSE obj
    IN  IF hasOwnProperty(grown, "w:t") /\ isArray(Get(grown, "w:t"))
        THEN Set(grown, "w:t", Arr(<<Obj(<<"_">>, <<Str(<<"T">>)>>)>>))
        ELSE grown

\* the visitors visitXml is called with: what obj is after visitor(obj)
Visitor(v, obj) ==
    CASE v = "sentinel" -> SentinelVisitor(obj)
      [] v = "grow" -> GrowVisitor(obj)
      [] OTHER -> obj

\* a slip: the walk goes into the values the object had before the visitor
\* ran, so what the visitor added or put in their place is not walked
RECURSIVE WalkStale(_, _, _)
WalkStale(value, v, path) ==
    IF isArray(value)
    THEN LET below == [i \in 1..Len(value.kids) |->
                          WalkStale(value.kids[i], v, Append(path, i))]
         IN  [tree |-> Arr([i \in 1..Len(value.kids) |-> below[i].tree]),
              calls |-> Flatten([i \in 1..Len(value.kids) |-> below[i].calls])]
    ELSE IF ~isObject(value) THEN [tree |-> value, calls |-> <<>>]
    ELSE LET visited == Visitor(v, value)
             below == [i \in 1..Len(value.kids) |->
                          WalkStale(value.kids[i], v, Append(path, i))]
         IN  [tree |-> [visited EXCEPT !.kids =
                           [i \in 1..Len(visited.kids) |->
                               IF i <= Len(value.kids) /\ visited.kids[i] = value.kids[i]
                               THEN below[i].tree ELSE visited.kids[i]]],
              calls |-> <<path>> \o
                        Flatten([i \in 1..Len(value.kids) |-> below[i].calls])]

\* visitXml(value, visitor) for the value found at `path`: the tree the walk
\* leaves behind and the paths of the values the visitor was called on, in
\* the order of the calls.  The visitor runs on an object before the walk
\* goes on into the values the object then has.  (`below` is the sequence of
\* the results for the children, put together once.)
RECURSIVE Walk(_, _, _)
Walk(value, v, path) ==
    IF isArray(value)
    THEN LET below == <<>> \o [i \in 1..Len(value.kids) |->
                                  Walk(value.kids[i], v, Append(path, i))]
         IN  [tree |-> Arr([i \in 1..Len(value.kids) |-> below[i].tree]),
              calls |-> Flatten([i \in 1..Len(value.kids) |-> below[i].calls])]
    ELSE IF ~isObject(value) THEN [tree |-> value, calls |-> <<>>]
    ELSE LET visited == Visitor(v, value)
             below == <<>> \o [i \in 1..Len(visited.kids) |->
                                  Walk(visited.kids[i], v, Append(path, i))]
         IN  [tree |-> [visited EXCEPT !.kids =
                           [i \in 1..Len(visited.kids) |-> below[i].tree]],
              calls |-> <<path>> \o
                        Flatten([i \in 1..Len(visited.kids) |-> below[i].calls])]

visitXml(value) == Walk(value, "sentinel", <<>>).tree

injectFieldCodeSentinels(tree) == visitXml(tree)

(***************************************************************************)
(* Inputs of the merge pass: strings put together from at most MaxPieces   *)
(* pieces (whole spans, spans that need trimming, blank spans, blank and   *)
(* non-blank text, a stray delimiter).                                     *)
(***************************************************************************)
Formats == {"gfm", "html"}

MergePieces(f) ==
    IF isHtmlFormat(f)
    THEN { <<"{", "{", "a", "}", "}">>, <<"{", "{", " ", "b", "}", "}">>,
           <<"{", "{", " ", "}", "}">>, <<" ">>, <<"\n">>, <<"x">>,
           <<"{", "{">> }
    ELSE { <<BACKTICK, "a", BACKTICK>>, <<BACKTICK, " ", "b", BACKTICK>>,
           <<BACKTICK, " ", BACKTICK>>,
           <<" ">>, <<"\n">>, <<"x">>, <<BACKTICK>> }

SeqsUpTo(S, n) == UNION {[1..k -> S] : k \in 0..n}

MergeInputs(f) == {Flatten(ps) : ps \in SeqsUpTo(MergePieces(f), MaxPieces)}

\* a part of the state that a function does not touch
NoXml == xml = <<>> /\ xmlOut = <<>> /\ visitor = "" /\ calls = <<>>

NoFs ==
    /\ files = {} /\ dirs = {} /\ docxFiles = <<>> /\ idx = 0
    /\ failures = <<>> /\ unlinked = {}

NoRun ==
    /\ clean = FALSE /\ attempts = <<>> /\ reconcileRuns = 0 /\ rmError = <<>>
    /\ reported = FALSE /\ exitCode = -1

NoFlow ==
    /\ request = <<>> /\ debugXml = FALSE /\ env = <<>> /\ result = <<>>
    /\ spawns = 0 /\ tmpFiles = {} /\ contents = <<>> /\ inFlight = {}

NoText == text = <<>> /\ tokens = <<>> /\ merged = <<>> /\ out = <<>> /\ out2 = <<>>

InitMerge ==
    /\ pc = "merge"
    /\ format \in Formats
    /\ text \in MergeInputs(format)
    /\ tokens = <<>>
    /\ merged = <<>>
    /\ out = <<>>
    /\ out2 = <<>>
    /\ NoXml
    /\ NoFs
    /\ NoRun
    /\ NoFlow

\* one call of the merge pass on `text`
MergeOnce ==
    /\ pc = "merge"
    /\ tokens' = Tokenize(KindOf(format), text, 1)
    /\ merged' = MergeLoop(KindOf(format), tokens', 1)
    /\ out' = MergePass(format, text)
    /\ pc' = "merged"
    /\ UNCHANGED <<format, text, out2, xmlVars, fsVars, runVars, flowVars>>

\* the pass applied to its own output
MergeAgain ==
    /\ pc = "merged"
    /\ out2' = MergePass(format, out)
    /\ pc' = "remerged"
    /\ UNCHANGED <<format, text, tokens, merged, out, xmlVars, fsVars, runVars, flowVars>>

NextMerge == MergeOnce \/ MergeAgain

SpecMerge == InitMerge /\ [][NextMerge]_vars

(***************************************************************************)
(* postProcessPandocOutput on raw converter output put together from at    *)
(* most MaxPieces pieces: sentinels (balanced or not), a whole wrapped     *)
(* field code, the characters sentinels are made of, and a blank; or, with *)
(* no sentinel in it, from the pieces of MergePieces: the code spans and   *)
(* the braces the document itself had.                                     *)
(***************************************************************************)
RawPieces ==
    { SENTINEL_PRE, SENTINEL_POST, SENTINEL_PRE \o <<"a">> \o SENTINEL_POST,
      <<"=">>, <<":">>, <<" ">> }

RawInputs == {Flatten(ps) : ps \in SeqsUpTo(RawPieces, MaxPieces)}

Replaced(raw, f) ==
    IF isHtmlFormat(f)
    THEN SplitJoin(SplitJoin(raw, SENTINEL_PRE, CURLY_OPEN),
                   SENTINEL_POST, CURLY_CLOSE)
    ELSE SplitJoin(SplitJoin(raw, SENTINEL_PRE, <<BACKTICK>>),
                   SENTINEL_POST, <<BACKTICK>>)

InitPost ==
    /\ pc = "post"
    /\ format \in Formats
    /\ text \in RawInputs \cup MergeInputs(format)
    /\ tokens = <<>>
    /\ merged = <<>>
    /\ out = <<>>
    /\ out2 = <<>>
    /\ NoXml
    /\ NoFs
    /\ NoRun
    /\ NoFlow

PostProcess ==
    /\ pc = "post"
    /\ tokens' = Tokenize(KindOf(format), Replaced(text, format), 1)
    /\ merged' = MergeLoop(KindOf(format), tokens', 1)
    /\ out' = postProcessPandocOutput(text, format)
    /\ pc' = "posted"
    /\ UNCHANGED <<format, text, out2, xmlVars, fsVars, runVars, flowVars>>

NextPost == PostProcess

SpecPost == InitPost /\ [][NextPost]_vars

(***************************************************************************)
(* Documents as xml2js hands them over (explicitArray: every child element *)
(* is an array; text is a string, or an object with "_" when the element   *)
(* has attributes; an element without text is "" or an object without "_").*)
(* A document is a paragraph of at most MaxRuns runs.                      *)
(***************************************************************************)
FragmentTexts == { <<"A">>, <<" ", "B", " ", " ", "C">>, <<>> }

Attrs == Obj(<<"xml:space">>, <<Str(<<"p">>)>>)
VisibleText == Str(<<"T">>)

RunShapes ==
    \* only a field instruction
    { Obj(<<"w:instrText">>, <<Arr(<<Str(f)>>)>>) : f \in FragmentTexts }
    \* formatting, visible text and a field instruction in two fragments
    \cup { Obj(<<"w:rPr", "w:t", "w:instrText">>,
               <<Arr(<<Obj(<<"w:b">>, <<Arr(<<Str(<<>>)>>)>>)>>),
                 Arr(<<VisibleText>>), Arr(<<Str(f), Str(g)>>)>>) :
            f \in FragmentTexts, g \in FragmentTexts }
    \* a field instruction with attributes, before the visible text
    \cup { Obj(<<"w:instrText", "w:t">>,
               <<Arr(<<Obj(<<"_", "$">>, <<Str(f), Attrs>>)>>),
                 Arr(<<VisibleText>>)>>) : f \in FragmentTexts \ {<<>>} }
    \* a field instruction nested in a child that precedes the run's own
    \cup { Obj(<<"w:x", "w:instrText">>,
               <<Arr(<<Obj(<<"w:instrText">>, <<Arr(<<Str(<<"A">>)>>)>>)>>),
                 Arr(<<Str(f)>>)>>) : f \in FragmentTexts }
    \* a run nested under a run
    \cup { Obj(<<"w:instrText", "w:r">>,
               <<Arr(<<Str(f)>>),
                 Arr(<<Obj(<<"w:instrText", "w:t">>,
                           <<Arr(<<Str(<<"A">>)>>), Arr(<<VisibleText>>)>>)>>)>>) :
            f \in FragmentTexts }
    \* a field instruction of blank fragments only, without and with visible text
    \cup { Obj(<<"w:instrText">>, <<Arr(<<Str(<<" ">>), Str(<<>>)>>)>>),
           Obj(<<"w:t", "w:instrText">>,
               <<Arr(<<VisibleText>>), Arr(<<Str(<<" ", "\n">>)>>)>>) }
    \* no field instruction; an empty one with attributes; an empty run
    \cup { Obj(<<"w:t">>, <<Arr(<<VisibleText>>)>>),
           Obj(<<"w:instrText">>, <<Arr(<<Obj(<<"$">>, <<Attrs>>)>>)>>),
           Str(<<>>) }

Document(runs) ==
    Obj(<<"w:document">>,
        <<Obj(<<"$", "w:body">>,
              <<Attrs,
                Arr(<<Obj(<<"w:p">>,
                          <<Arr(<<Obj(<<"w:r">>, <<Arr(runs)>>)>>)>>)>>)>>)>>)

Documents == {Document(runs) : runs \in SeqsUpTo(RunShapes, MaxRuns)}

InitInject ==
    /\ pc = "inject"
    /\ format = "gfm"
    /\ xml \in Documents
    /\ xmlOut = <<>>
    /\ visitor = "sentinel"
    /\ calls = <<>>
    /\ NoText
    /\ NoFs
    /\ NoRun
    /\ NoFlow

\* the walk of injectFieldCodeSentinels (lines 195-226)
Inject ==
    /\ pc = "inject"
    /\ xmlOut' = injectFieldCodeSentinels(xml)
    /\ calls' = Walk(xml, visitor, <<>>).calls
    /\ pc' = "injected"
    /\ UNCHANGED <<format, xml, visitor, textVars, fsVars, runVars, flowVars>>

NextInject == Inject

SpecInject == InitInject /\ [][NextInject]_vars

(***************************************************************************)
(* visitXml on the same documents with each of the visitors.               *)
(***************************************************************************)
Visitors == {"none", "sentinel", "grow"}

InitVisit ==
    /\ pc = "visit"
    /\ format = "gfm"
    /\ xml \in Documents
    /\ xmlOut = <<>>
    /\ visitor \in Visitors
    /\ calls = <<>>
    /\ NoText
    /\ NoFs
    /\ NoRun
    /\ NoFlow

\* one call visitXml(xml, visitor)
Visit ==
    /\ pc = "visit"
    /\ xmlOut' = Walk(xml, visitor, <<>>).tree
    /\ calls' = Walk(xml, visitor, <<>>).calls
    /\ pc' = "visited"
    /\ UNCHANGED <<format, xml, visitor, textVars, fsVars, runVars, flowVars>>

NextVisit == Visit

SpecVisit == InitVisit /\ [][NextVisit]_vars

(***************************************************************************)
(* Paths and the file system.  A path is a sequence of segments; a segment *)
(* is a name split into stem and extension, the extension in the letter    *)
(* case it has on disk.  Paths are relative to the working directory       *)
(* unless they went through path.resolve.                                  *)
(***************************************************************************)
Seg(stem, ext) == [stem |-> stem, ext |-> ext]
Dir(name) == Seg(name, "")

SNIPPETS == Dir("snippets")
MIRROR == Dir("snippets-mirror")
CWD == Dir("/repo")

\* String.prototype.toLowerCase on an extension, a directory name or a
\* format name
toLowerCase(ext) ==
    CASE ext = ".DOCX" -> ".docx"
      [] ext = ".MD" -> ".md"
      [] ext = ".HTML" -> ".html"
      [] ext = "HTML" -> "html"
      [] ext = "Snippets" -> "snippets"
      [] OTHER -> ext

Last(path) == path[Len(path)]

dirname(path) == SubSeq(path, 1, Len(path) - 1)

resolve(path) == <<CWD>> \o path

\* path.relative(from, to) for `to` inside `from`; ".." leads otherwise
relative(from, to) ==
    IF IsPrefix(from, to) THEN SubSeq(to, Len(from) + 1, Len(to))
    ELSE <<Dir("..")>> \o to

\* the directories fs.mkdirSync(dir, {recursive: true}) makes sure of
Ancestors(path) == {SubSeq(path, 1, k) : k \in 1..(Len(path) - 1)}

outputExtensionFor(f) == IF isHtmlFormat(f) THEN ".html" ELSE ".md"

normalizeFormat(format0) ==
    LET f == toLowerCase(format0)
    IN  IF f \in {"md", "markdown"} THEN "gfm"
        ELSE IF f = "" THEN "gfm"
        ELSE f

\* generate-all-snippet-mirrors.js has its own copies (lines 40-53)
isHtmlFormatBatch(f) == toLowerCase(f) = "html"

outputExtensionForBatch(f) == IF isHtmlFormatBatch(f) THEN ".html" ELSE ".md"

normalizeFormatBatch(format0) ==
    LET f == toLowerCase(format0)
    IN  IF f = "md" THEN "gfm"
        ELSE IF f = "markdown" THEN "gfm"
        ELSE IF f = "" THEN "gfm"
        ELSE f

\* parseCliArgs of the batch script (lines 26-38): the format it returns for
\* the argument format=<arg>
parseCliArgs(arg) ==
    LET f == toLowerCase(arg)
    IN  IF f = "" THEN "gfm" ELSE f

\* rel.replace(/\.docx$/i, ext) on the last segment
ReplaceDocxExt(seg, ext) ==
    IF toLowerCase(seg.ext) = ".docx" THEN Seg(seg.stem, ext) ELSE seg

\* path.join: a ".." segment takes back the segment before it
RECURSIVE JoinOnto(_, _)
JoinOnto(done, rest) ==
    IF rest = <<>> THEN done
    ELSE IF Head(rest) = Dir("..") /\ done # <<>> /\ Last(done) # Dir("..")
    THEN JoinOnto(dirname(done), Tail(rest))
    ELSE JoinOnto(Append(done, Head(rest)), Tail(rest))

pathJoin(path) == JoinOnto(<<>>, path)

\* normalized.toLowerCase().startsWith('snippets/') (part_001 line 92)
StartsWithSnippets(docxPath) ==
    /\ Len(docxPath) >= 2
    /\ Head(docxPath).ext = ""
    /\ toLowerCase(Head(docxPath).stem) = "snippets"

\* generate-snippet-mirror.js, for a path that passed the test of line 92
mirrorPathForDocx(docxPath, f) ==
    LET rel == Tail(docxPath)
    IN  pathJoin(<<MIRROR>> \o SubSeq(rel, 1, Len(rel) - 1)
                    \o <<ReplaceDocxExt(Last(rel), outputExtensionFor(f))>>)

\* a slip: the extension is replaced only when it is written in lower case
mirrorPathForDocxNoIgnoreCase(docxPath, f) ==
    LET rel == Tail(docxPath)
        name == Last(rel)
    IN  pathJoin(<<MIRROR>> \o SubSeq(rel, 1, Len(rel) - 1)
                    \o <<IF name.ext = ".docx"
                         THEN Seg(name.stem, outputExtensionForBatch(f))
                         ELSE name>>)

\* generate-all-snippet-mirrors.js has its own copy of the function
mirrorPathForDocxBatch(docxPath, f) ==
    LET rel == Tail(docxPath)
    IN  pathJoin(<<MIRROR>> \o SubSeq(rel, 1, Len(rel) - 1)
                    \o <<ReplaceDocxExt(Last(rel), outputExtensionForBatch(f))>>)

\* walkFiles(dir): every regular file below dir, [] if dir does not exist
walkFiles(fileSet, dirSet, dir) ==
    IF dir \notin dirSet THEN {}
    ELSE {p \in fileSet : IsPrefix(dir, p) /\ Len(p) > Len(dir)}

\* the order in which readdirSync hands the documents over
SourceOrder ==
    << <<SNIPPETS, Seg("a", ".docx")>>,
       <<SNIPPETS, Dir("d"), Seg("a", ".docx")>>,
       <<SNIPPETS, Dir("d"), Seg("a", ".DOCX")>>,
       <<SNIPPETS, Dir("d"), Dir("e"), Seg("b", ".docx")>>,
       <<SNIPPETS, Dir("d"), Seg("notes", ".txt")>> >>

listDocxFilesUnderSnippets(fileSet, dirSet) ==
    LET found == walkFiles(fileSet, dirSet, <<SNIPPETS>>)
        IsDocx(p) == p \in found /\ toLowerCase(Last(p).ext) = ".docx"
    IN  SelectSeq(SourceOrder, IsDocx)

listMirrorFiles(fileSet, dirSet, f) ==
    {p \in walkFiles(fileSet, dirSet, <<MIRROR>>) :
        toLowerCase(Last(p).ext) = toLowerCase(outputExtensionForBatch(f))}

Range(seq) == {seq[i] : i \in 1..Len(seq)}

\* a slip: root-level files are not set apart
IsStaleAnyDepth(mirror, expected) ==
    LET rel == relative(resolve(<<MIRROR>>), mirror)
    IN  /\ rel # <<>> /\ Head(rel) # Dir("..")
        /\ mirror \notin expected

\* the callback of mirrors.forEach (lines 102-111): is rmSync called?
IsStale(mirror, expected) ==
    LET rel == relative(resolve(<<MIRROR>>), mirror)
    IN  /\ rel # <<>> /\ Head(rel) # Dir("..")
        /\ Len(rel) >= 2
        /\ mirror \notin expected

\* a slip: only the documents that converted are expected to have a mirror
StaleOfConverted(fileSet, dirSet, docx, f) ==
    LET failed == {x.docxPath : x \in Range(failures)}
        expected == {resolve(mirrorPathForDocxBatch(d, f)) : d \in Range(docx) \ failed}
    IN  {p \in listMirrorFiles(fileSet, dirSet, f) : IsStale(resolve(p), expected)}

\* a slip: nothing is ever stale
StaleNone(fileSet, dirSet, docx, f) == {}

\* the files removeStaleMirrors removes (lines 95-111)
StaleMirrors(fileSet, dirSet, docx, f) ==
    LET expected == {resolve(mirrorPathForDocxBatch(d, f)) : d \in Range(docx)}
    IN  {p \in listMirrorFiles(fileSet, dirSet, f) : IsStale(resolve(p), expected)}

\* fs.readdirSync(d)
readdir(fileSet, dirSet, d) == {p \in fileSet \cup dirSet : Len(p) = Len(d) + 1 /\ IsPrefix(d, p)}

\* allDirs.forEach (lines 119-126), longest path first: the directories left
RECURSIVE PruneEmpty(_, _, _)
PruneEmpty(fileSet, dirSet, todo) ==
    IF todo = {} THEN dirSet
    ELSE LET d == CHOOSE x \in todo : \A y \in todo : Len(y) <= Len(x)
             gone == /\ d # resolve(<<MIRROR>>)
                     /\ d \in dirSet
                     /\ readdir(fileSet, dirSet, d) = {}
         IN  PruneEmpty(fileSet, IF gone THEN dirSet \ {d} ELSE dirSet, todo \ {d})

\* the directories removeStaleMirrors looks at (lines 114-117)
allDirs(fileSet, dirSet) == {dirname(p) : p \in walkFiles(fileSet, dirSet, <<MIRROR>>)}

(***************************************************************************)
(* The batch run: main and generateAllMirrors of                           *)
(* generate-all-snippet-mirrors.js.                                        *)
(***************************************************************************)
SourceFiles == Range(SourceOrder)

MirrorFiles ==
    { <<MIRROR, Seg("README", ".md")>>,
      <<MIRROR, Seg("a", ".md")>>,
      <<MIRROR, Dir("d"), Seg("a", ".md")>>,
      <<MIRROR, Dir("d"), Seg("a", ".html")>>,
      <<MIRROR, Dir("d"), Dir("e"), Seg("b", ".md")>>,
      <<MIRROR, Dir("old"), Seg("x", ".md")>>,
      <<MIRROR, Dir("d"), Seg("a", ".MD")>> }

\* the format names generateSnippetMirror is called with
FormatArgs == {"gfm", "html", "md"}

\* what the argument format=<arg> of the batch script may carry: the two
\* targets, an alias, a target in capitals, a name pandoc does not know
CliFormats == {"gfm", "html", "md", "HTML", "rst"}

\* the order in which walkFiles hands over the files of the output root
MirrorOrder ==
    << <<MIRROR, Seg("README", ".md")>>,
       <<MIRROR, Seg("a", ".html")>>,
       <<MIRROR, Seg("a", ".md")>>,
       <<MIRROR, Dir("d"), Seg("a", ".MD")>>,
       <<MIRROR, Dir("d"), Seg("a", ".html")>>,
       <<MIRROR, Dir("d"), Seg("a", ".md")>>,
       <<MIRROR, Dir("d"), Dir("e"), Seg("b", ".html")>>,
       <<MIRROR, Dir("d"), Dir("e"), Seg("b", ".md")>>,
       <<MIRROR, Dir("old"), Seg("x", ".md")>> >>

\* cleanMirrorOutput (lines 82-92): what is left of the files, of the directories
cleanFiles(fileSet) == {p \in fileSet : ~(Len(p) >= 3 /\ Head(p) = MIRROR)}
cleanDirs(dirSet) == {d \in dirSet : ~(Len(d) >= 2 /\ Head(d) = MIRROR)}

Init ==
    /\ pc = "main"
    /\ format \in CliFormats
    /\ clean \in BOOLEAN
    /\ \E src \in SUBSET SourceFiles, mir \in SUBSET MirrorFiles, root \in BOOLEAN :
          /\ src # {} => root
          /\ files = src \cup mir
          /\ dirs = (IF root THEN {<<SNIPPETS>>} ELSE {})
                       \cup UNION {Ancestors(p) : p \in src \cup mir}
    /\ docxFiles = <<>>
    /\ idx = 0
    /\ failures = <<>>
    /\ unlinked = {}
    /\ attempts = <<>>
    /\ reconcileRuns = 0
    /\ rmError = <<>>
    /\ reported = FALSE
    /\ exitCode = -1
    /\ NoText
    /\ NoXml
    /\ NoFlow

\* main when there is no snippets/ (lines 150-153)
MainNoSource ==
    /\ pc = "main"
    /\ <<SNIPPETS>> \notin dirs
    /\ exitCode' = 2
    /\ pc' = "exited"
    /\ UNCHANGED <<format, fsVars, clean, attempts, reconcileRuns, rmError, reported,
                   textVars, xmlVars, flowVars>>

\* a slip: main does not look for snippets/
MainUnguarded ==
    /\ pc = "main"
    /\ format' = normalizeFormatBatch(parseCliArgs(format))
    /\ dirs' = IF clean THEN cleanDirs(dirs) \cup {<<MIRROR>>} ELSE dirs \cup {<<MIRROR>>}
    /\ files' = IF clean THEN cleanFiles(files) ELSE files
    /\ docxFiles' = listDocxFilesUnderSnippets(files, dirs)
    /\ idx' = 1
    /\ pc' = "convert"
    /\ UNCHANGED <<failures, unlinked, runVars, textVars, xmlVars, flowVars>>

\* main up to the loop of generateAllMirrors (lines 146-161, 130-131)
Main ==
    /\ pc = "main"
    /\ <<SNIPPETS>> \in dirs
    /\ format' = normalizeFormatBatch(parseCliArgs(format))
    /\ dirs' = IF clean THEN cleanDirs(dirs) \cup {<<MIRROR>>} ELSE dirs \cup {<<MIRROR>>}
    /\ files' = IF clean THEN cleanFiles(files) ELSE files
    /\ docxFiles' = listDocxFilesUnderSnippets(files, dirs)
    /\ idx' = 1
    /\ pc' = "convert"
    /\ UNCHANGED <<failures, unlinked, runVars, textVars, xmlVars, flowVars>>

\* the name crypto.randomUUID() gives the temporary archive (lines 266-268)
TmpName == "snippet-mirror-1.docx"

Attempt(docx, threw) == [docxPath |-> docx, threw |-> threw]

flowRest == <<request, debugXml, env, result, contents>>

\* a slip: the loop calls generateSnippetMirror without waiting for the
\* call before it
StartFlowNoAwait ==
    /\ pc = "convert"
    /\ \E k \in idx..Len(docxFiles) :
          /\ docxFiles[k] \notin inFlight
          /\ inFlight' = inFlight \cup {docxFiles[k]}
          /\ dirs' = dirs \cup Ancestors(mirrorPathForDocx(docxFiles[k],
                                                           normalizeFormat(format)))
    /\ UNCHANGED <<pc, format, files, docxFiles, idx, failures, unlinked, runVars,
                   textVars, xmlVars, spawns, tmpFiles, flowRest>>

\* one turn of the loop begins (lines 133-135): generateSnippetMirror runs
\* to its first await, that is through ensureDirForFile (part_001 439-444)
\* and into buildTempDocxWithMutatedDocumentXml (part_001 246-249)
StartFlow ==
    /\ pc = "convert"
    /\ idx <= Len(docxFiles)
    /\ inFlight = {}
    /\ inFlight' = {docxFiles[idx]}
    /\ dirs' = dirs \cup Ancestors(mirrorPathForDocx(docxFiles[idx],
                                                     normalizeFormat(format)))
    /\ UNCHANGED <<pc, format, files, docxFiles, idx, failures, unlinked, runVars,
                   textVars, xmlVars, spawns, tmpFiles, flowRest>>

\* buildTempDocxWithMutatedDocumentXml writes the temporary archive and
\* returns its path (part_001 250-273)
TempBuilt ==
    /\ pc = "convert"
    /\ idx <= Len(docxFiles)
    /\ docxFiles[idx] \in inFlight
    /\ tmpFiles = {}
    /\ tmpFiles' = {TmpName}
    /\ UNCHANGED <<pc, format, fsVars, runVars, textVars, xmlVars, spawns, inFlight,
                   flowRest>>

\* the turn ends, generateSnippetMirror returns (part_001 447-456): the
\* converter ran, the mirror is written, the temporary archive is removed
ConvertOk ==
    /\ pc = "convert"
    /\ idx <= Len(docxFiles)
    /\ docxFiles[idx] \in inFlight
    /\ tmpFiles # {}
    /\ LET mirrorPath == mirrorPathForDocx(docxFiles[idx], normalizeFormat(format))
       IN  /\ dirs' = dirs \cup Ancestors(mirrorPath)
           /\ files' = files \cup {mirrorPath}
    /\ spawns' = spawns + 1
    /\ tmpFiles' = {}
    /\ inFlight' = inFlight \ {docxFiles[idx]}
    /\ attempts' = Append(attempts, Attempt(docxFiles[idx], FALSE))
    /\ idx' = idx + 1
    /\ UNCHANGED <<pc, format, docxFiles, failures, unlinked, clean, reconcileRuns,
                   rmError, reported, exitCode, textVars, xmlVars, flowRest>>

\* a slip: the first failure ends the loop
ConvertFailAborts ==
    /\ pc = "convert"
    /\ idx <= Len(docxFiles)
    /\ docxFiles[idx] \in inFlight
    /\ LET mirrorPath == mirrorPathForDocx(docxFiles[idx], normalizeFormat(format))
       IN  dirs' = dirs \cup Ancestors(mirrorPath)
    /\ spawns' = IF tmpFiles # {} THEN spawns + 1 ELSE spawns
    /\ tmpFiles' = {}
    /\ inFlight' = inFlight \ {docxFiles[idx]}
    /\ failures' = Append(failures, [docxPath |-> docxFiles[idx], error |-> "pandoc failed"])
    /\ attempts' = Append(attempts, Attempt(docxFiles[idx], TRUE))
    /\ idx' = Len(docxFiles) + 1
    /\ UNCHANGED <<pc, format, files, docxFiles, unlinked, clean, reconcileRuns,
                   rmError, reported, exitCode, textVars, xmlVars, flowRest>>

\* the turn ends, generateSnippetMirror throws after ensureDirForFile and
\* the catch clause records it (lines 136-138): either the archive could
\* not be rebuilt, or the converter ran and failed and the finally clause
\* removed the temporary archive (part_001 447-455)
ConvertFail ==
    /\ pc = "convert"
    /\ idx <= Len(docxFiles)
    /\ docxFiles[idx] \in inFlight
    /\ LET mirrorPath == mirrorPathForDocx(docxFiles[idx], normalizeFormat(format))
       IN  dirs' = dirs \cup Ancestors(mirrorPath)
    /\ spawns' = IF tmpFiles # {} THEN spawns + 1 ELSE spawns
    /\ tmpFiles' = {}
    /\ inFlight' = inFlight \ {docxFiles[idx]}
    /\ failures' = Append(failures, [docxPath |-> docxFiles[idx], error |-> "pandoc failed"])
    /\ attempts' = Append(attempts, Attempt(docxFiles[idx], TRUE))
    /\ idx' = idx + 1
    /\ UNCHANGED <<pc, format, files, docxFiles, unlinked, clean, reconcileRuns,
                   rmError, reported, exitCode, textVars, xmlVars, flowRest>>

\* a slip: removeStaleMirrors is called as soon as one document was tried
ReconcileEarly ==
    /\ pc = "convert"
    /\ idx > 1
    /\ LET stale == StaleMirrors(files, dirs, docxFiles, format)
           kept == files \ stale
           left == PruneEmpty(kept, dirs, allDirs(kept, dirs))
       IN  /\ files' = kept
           /\ dirs' = left
           /\ unlinked' = stale \cup (dirs \ left)
    /\ reconcileRuns' = reconcileRuns + 1
    /\ pc' = "reconciled"
    /\ UNCHANGED <<format, docxFiles, idx, failures, clean, attempts, rmError,
                   reported, exitCode, textVars, xmlVars, flowVars>>

\* removeStaleMirrors (lines 94-127), after the loop
Reconcile ==
    /\ pc = "convert"
    /\ idx > Len(docxFiles)
    /\ LET stale == StaleMirrors(files, dirs, docxFiles, format)
           kept == files \ stale
           left == PruneEmpty(kept, dirs, allDirs(kept, dirs))
       IN  /\ files' = kept
           /\ dirs' = left
           /\ unlinked' = stale \cup (dirs \ left)
    /\ reconcileRuns' = reconcileRuns + 1
    /\ pc' = "reconciled"
    /\ UNCHANGED <<format, docxFiles, idx, failures, clean, attempts, rmError,
                   reported, exitCode, textVars, xmlVars, flowVars>>

\* removeStaleMirrors when fs.rmSync throws on the k-th stale mirror (line
\* 109, e.g. EACCES): the forEach ends there and the error leaves
\* removeStaleMirrors, generateAllMirrors and main
ReconcileThrows ==
    /\ pc = "convert"
    /\ idx > Len(docxFiles)
    /\ LET stale == StaleMirrors(files, dirs, docxFiles, format)
           IsStaleFile(p) == p \in stale
           order == SelectSeq(MirrorOrder, IsStaleFile)
       IN  \E k \in 1..Len(order) :
             /\ files' = files \ {order[i] : i \in 1..(k - 1)}
             /\ unlinked' = {order[i] : i \in 1..(k - 1)}
             /\ rmError' = order[k]
    /\ reconcileRuns' = reconcileRuns + 1
    /\ pc' = "crashed"
    /\ UNCHANGED <<format, dirs, docxFiles, idx, failures, clean, attempts,
                   reported, exitCode, textVars, xmlVars, flowVars>>

\* main after generateAllMirrors returned (lines 163-170)
Report ==
    /\ pc = "reconciled"
    /\ reported' = TRUE
    /\ exitCode' = IF Len(failures) > 0 THEN 1 ELSE 0
    /\ pc' = "exited"
    /\ UNCHANGED <<format, fsVars, clean, attempts, reconcileRuns, rmError,
                   textVars, xmlVars, flowVars>>

\* main().catch (lines 174-177)
Crash ==
    /\ pc = "crashed"
    /\ exitCode' = 1
    /\ pc' = "exited"
    /\ UNCHANGED <<format, fsVars, clean, attempts, reconcileRuns, rmError, reported,
                   textVars, xmlVars, flowVars>>

Next ==
    \/ MainNoSource \/ Main \/ StartFlow \/ TempBuilt \/ ConvertOk \/ ConvertFail
    \/ Reconcile \/ ReconcileThrows \/ Report \/ Crash

Spec == Init /\ [][Next]_vars

(***************************************************************************)
(* The single-document flow: generateSnippetMirror of                      *)
(* generate-snippet-mirror.js and what it calls.  What the file system and *)
(* the converter answer is fixed by `env` before the call.                 *)
(***************************************************************************)
Error(name, status, stderr) == [name |-> name, status |-> status, stderr |-> stderr]
NoError == Error("", "", "")

\* spawnSync('pandoc', ...) (lines 281-284)
spawnSync(e) ==
    CASE e.pandoc = "launch" ->
           [error |-> Error("spawn pandoc ENOENT", "", ""), status |-> "null",
            stdout |-> <<>>, stderr |-> ""]
      [] e.pandoc = "exit1" ->
           [error |-> NoError, status |-> "1", stdout |-> <<>>, stderr |-> "diagnostics"]
      [] e.pandoc = "signal" ->
           [error |-> NoError, status |-> "null", stdout |-> <<>>, stderr |-> ""]
      [] OTHER ->
           [error |-> NoError, status |-> "0", stdout |-> e.stdout, stderr |-> ""]

\* a slip: the exit status is not looked at
runPandocAnyStatus(e) ==
    LET spawned == spawnSync(e)
    IN  IF spawned.error # NoError
        THEN [threw |-> TRUE, error |-> spawned.error, stdout |-> <<>>]
        ELSE [threw |-> FALSE, error |-> NoError, stdout |-> spawned.stdout]

\* runPandoc (lines 275-293)
runPandoc(e) ==
    LET spawned == spawnSync(e)
    IN  IF spawned.error # NoError
        THEN [threw |-> TRUE, error |-> spawned.error, stdout |-> <<>>]
        ELSE IF spawned.status # "0"
        THEN [threw |-> TRUE,
              error |-> Error("pandoc failed", spawned.status, spawned.stderr),
              stdout |-> <<>>]
        ELSE [threw |-> FALSE, error |-> NoError, stdout |-> spawned.stdout]

\* `${docxPath}.debug.xml` (line 260)
DebugPathFor(path) ==
    LET name == Last(path)
    IN  dirname(path) \o
        << CASE name = Seg("a", ".docx") -> Seg("a.docx.debug", ".xml")
             [] name = Seg("a", ".DOCX") -> Seg("a.DOCX.debug", ".xml")
             [] OTHER -> Seg("debug", ".xml") >>

\* a slip: the entry word/document.xml is not looked for
buildTempWithoutEntryTest(fileSet, path, dbg, e) ==
    IF pathJoin(path) \notin fileSet \/ ~e.readable
    THEN [threw |-> TRUE, error |-> Error("read failed", "", ""),
          files |-> fileSet, tmpPath |-> ""]
    ELSE IF dbg /\ ~e.debugWritable
    THEN [threw |-> TRUE, error |-> Error("debug write failed", "", ""),
          files |-> fileSet, tmpPath |-> ""]
    ELSE LET withDebug == IF dbg THEN fileSet \cup {pathJoin(DebugPathFor(path))} ELSE fileSet
         IN  IF ~e.tmpWritable
             THEN [threw |-> TRUE, error |-> Error("temp write failed", "", ""),
                   files |-> withDebug, tmpPath |-> ""]
             ELSE [threw |-> FALSE, error |-> NoError,
                   files |-> withDebug, tmpPath |-> TmpName]

\* buildTempDocxWithMutatedDocumentXml (lines 246-273): whether it threw,
\* the files it left, the path it returned
buildTempDocxWithMutatedDocumentXml(fileSet, path, dbg, e) ==
    IF pathJoin(path) \notin fileSet \/ ~e.readable
    THEN [threw |-> TRUE, error |-> Error("read failed", "", ""),
          files |-> fileSet, tmpPath |-> ""]
    ELSE IF ~e.payload
    THEN [threw |-> TRUE, error |-> Error("Could not find word/document.xml inside docx.", "", ""),
          files |-> fileSet, tmpPath |-> ""]
    ELSE IF dbg /\ ~e.debugWritable
    THEN [threw |-> TRUE, error |-> Error("debug write failed", "", ""),
          files |-> fileSet, tmpPath |-> ""]
    ELSE LET withDebug == IF dbg THEN fileSet \cup {pathJoin(DebugPathFor(path))} ELSE fileSet
         IN  IF ~e.tmpWritable
             THEN [threw |-> TRUE, error |-> Error("temp write failed", "", ""),
                   files |-> withDebug, tmpPath |-> ""]
             ELSE [threw |-> FALSE, error |-> NoError,
                   files |-> withDebug, tmpPath |-> TmpName]

\* a slip: the temporary archive is left where it is
keepFile(tmpSet, filePath) == tmpSet

\* removeFileIfExists (lines 433-437)
removeFileIfExists(tmpSet, filePath) == tmpSet \ {filePath}

OldText == <<"o", "l", "d">>
DebugText == <<"<">>

\* the content of the files in fileSet when cont holds what was there before
ContentsOn(fileSet, cont, written, data) ==
    [p \in fileSet |->
        IF p = written THEN data
        ELSE IF p \in DOMAIN cont THEN cont[p]
        ELSE DebugText]

Outcome(fileSet, dirSet, cont, tmpSet, n, status, error, mirrorPath, tmpPath) ==
    [files |-> fileSet, dirs |-> dirSet, contents |-> cont, tmpFiles |-> tmpSet,
     spawns |-> n,
     result |-> [status |-> status, error |-> error, mirrorPath |-> mirrorPath,
                 tempDocxPath |-> tmpPath]]

\* generateSnippetMirror (lines 439-456)
generateSnippetMirror(fileSet, dirSet, cont, tmpSet, path, f, dbg, e) ==
    LET normalizedFormat == normalizeFormat(f)
    IN  IF ~StartsWithSnippets(path)
        THEN Outcome(fileSet, dirSet, cont, tmpSet, 0, "threw",
                     Error("Expected path under snippets/", "", ""), <<>>, "")
        ELSE
        LET mirrorPath == mirrorPathForDocx(path, normalizedFormat)
            ensured == dirSet \cup Ancestors(mirrorPath)
            built == buildTempDocxWithMutatedDocumentXml(fileSet, path, dbg, e)
        IN  IF built.threw
            THEN Outcome(built.files, ensured, ContentsOn(built.files, cont, <<>>, <<>>),
                         tmpSet, 0, "threw", built.error, mirrorPath, "")
            ELSE
            LET made == tmpSet \cup {built.tmpPath}
                rawPandoc == runPandoc(e)
                cleaned == postProcessPandocOutput(rawPandoc.stdout, normalizedFormat)
                removed == removeFileIfExists(made, built.tmpPath)
            IN  IF rawPandoc.threw
                THEN Outcome(built.files, ensured, ContentsOn(built.files, cont, <<>>, <<>>),
                             removed, 1, "threw", rawPandoc.error, mirrorPath, built.tmpPath)
                ELSE IF ~e.mirrorWritable
                THEN Outcome(built.files, ensured, ContentsOn(built.files, cont, <<>>, <<>>),
                             removed, 1, "threw", Error("mirror write failed", "", ""),
                             mirrorPath, built.tmpPath)
                ELSE Outcome(built.files \cup {mirrorPath}, ensured,
                             ContentsOn(built.files \cup {mirrorPath}, cont, mirrorPath, cleaned),
                             removed, 1, "returned", NoError, mirrorPath, built.tmpPath)

\* the docxPath values generateSnippetMirror is called with
Requests ==
    { <<SNIPPETS, Dir("d"), Seg("a", ".docx")>>,
      <<SNIPPETS, Seg("a", ".DOCX")>>,
      <<Dir("other"), Seg("a", ".docx")>>,
      <<SNIPPETS, Dir(".."), Dir("other"), Seg("a", ".docx")>>,
      <<Dir("Snippets"), Seg("a", ".docx")>>,
      <<Seg("a", ".docx")>> }

\* what pandoc prints
Stdouts ==
    { <<>>,
      SENTINEL_PRE \o <<"a">> \o SENTINEL_POST \o <<" ">>
        \o SENTINEL_PRE \o <<"b">> \o SENTINEL_POST }

Envs ==
    [readable : BOOLEAN, payload : BOOLEAN, debugWritable : BOOLEAN,
     tmpWritable : BOOLEAN, pandoc : {"ok", "launch", "exit1", "signal"},
     stdout : Stdouts, mirrorWritable : BOOLEAN]

InitSingle ==
    /\ pc = "call"
    /\ format \in FormatArgs \cup {""}
    /\ request \in Requests
    /\ debugXml \in BOOLEAN
    /\ env \in Envs
    /\ \E old \in BOOLEAN :
          LET before == IF old /\ StartsWithSnippets(request)
                        THEN {mirrorPathForDocx(request, normalizeFormat(format))}
                        ELSE {}
          IN  /\ files = {pathJoin(request)} \cup before
              /\ dirs = UNION {Ancestors(p) : p \in files}
              /\ contents = [p \in files |-> OldText]
    /\ result = <<>>
    /\ spawns = 0
    /\ tmpFiles = {}
    /\ inFlight = {}
    /\ docxFiles = <<>> /\ idx = 0 /\ failures = <<>> /\ unlinked = {}
    /\ NoRun
    /\ NoText
    /\ NoXml

\* one call of generateSnippetMirror({docxPath, format, debugXml})
Generate ==
    /\ pc = "call"
    /\ LET after == generateSnippetMirror(files, dirs, contents, tmpFiles,
                                          request, format, debugXml, env)
       IN  /\ files' = after.files
           /\ dirs' = after.dirs
           /\ contents' = after.contents
           /\ tmpFiles' = after.tmpFiles
           /\ spawns' = spawns + after.spawns
           /\ result' = after.result
           /\ pc' = after.result.status
    /\ UNCHANGED <<format, request, debugXml, env, inFlight, docxFiles, idx, failures,
                   unlinked, runVars, textVars, xmlVars>>

NextSingle == Generate

SpecSingle == InitSingle /\ [][NextSingle]_vars

(***************************************************************************)
(* Claims about the merge pass and the post-processor.                     *)
(***************************************************************************)
Kind == KindOf(format)

\* C1: applying the token-merge pass to its own output yields an identical
\* string, for every input string.
C1_MergeIdempotent == pc = "remerged" => out2 = out

\* tokens lo..hi are n >= 2 marked spans pairwise separated by blank text
IsChain(toks, lo, hi) ==
    /\ lo >= 1 /\ hi <= Len(toks) /\ hi > lo
    /\ (hi - lo) % 2 = 0
    /\ \A i \in lo..hi :
          IF (i - lo) % 2 = 0 THEN toks[i].type = Kind
          ELSE toks[i].type = "text" /\ IsBlank(toks[i].value)

\* the chain is all of the input but for one text token before or after it
ChainBounds(toks) ==
    {b \in ({1, 2} \X {Len(toks) - 1, Len(toks)}) :
        /\ IsChain(toks, b[1], b[2])
        /\ b[1] = 2 => toks[1].type = "text"
        /\ b[2] = Len(toks) - 1 => toks[Len(toks)].type = "text"}

ChainContents(toks, b) ==
    [k \in 1..((b[2] - b[1]) \div 2 + 1) |-> Trim(toks[b[1] + 2 * (k - 1)].value)]

Around(toks, b, content) ==
    (IF b[1] = 2 THEN toks[1].value ELSE <<>>)
    \o Open(Kind) \o content \o Close(Kind)
    \o (IF b[2] = Len(toks) - 1 THEN toks[Len(toks)].value ELSE <<>>)

NonEmpty(s) == s # <<>>

\* C2 as stated: n >= 2 marked spans pairwise separated only by blank text
\* come out as one marked span holding the trimmed contents of all n spans
\* joined by single spaces, in order.
C2_ChainJoinsAll ==
    pc = "merged" =>
        \A b \in ChainBounds(tokens) :
            out = Around(tokens, b, JoinWith(ChainContents(tokens, b), <<" ">>))

\* C2 amended: ... holding the non-empty trimmed contents of the n spans
\* joined by single spaces, in order (a span whose content is blank adds
\* nothing, not even a space).
C2_ChainJoinsNonEmpty ==
    pc = "merged" =>
        \A b \in ChainBounds(tokens) :
            out = Around(tokens, b,
                         JoinWith(SelectSeq(ChainContents(tokens, b), NonEmpty),
                                  <<" ">>))

\* three spans, two kinds of separator, a content that needs trimming
C2_Witness ==
    /\ pc = "merged"
    /\ \E b \in ChainBounds(tokens) :
          /\ b[2] - b[1] >= 4
          /\ \E i, j \in b[1]..b[2] :
                /\ tokens[i].type = "text" /\ tokens[j].type = "text"
                /\ tokens[i].value # tokens[j].value
          /\ \E i \in b[1]..b[2] :
                /\ tokens[i].type = Kind
                /\ Trim(tokens[i].value) \notin {<<>>, tokens[i].value}
    /\ Len(merged) = 1

\* a blank text token with a marked span on both sides
IsSeparator(toks, i) ==
    /\ toks[i].type = "text" /\ IsBlank(toks[i].value)
    /\ 1 < i /\ i < Len(toks)
    /\ toks[i - 1].type = Kind /\ toks[i + 1].type = Kind

SeparatorsBefore(toks, i) == Cardinality({k \in 1..(i - 1) : IsSeparator(toks, k)})

\* where token i of the input stands in the merged array
MergedIndex(toks, i) == i - 2 * SeparatorsBefore(toks, i)

\* C3: text with a non-blank character between two spans keeps them apart,
\* and every text segment that is not a blank separator between two spans
\* is in the output verbatim, at the same place relative to the spans.
C3_TextKeptVerbatim ==
    pc = "merged" =>
        /\ Len(merged) = Len(tokens) - 2 * SeparatorsBefore(tokens, Len(tokens) + 1)
        /\ \A i \in 1..Len(tokens) :
              (tokens[i].type = "text" /\ ~IsSeparator(tokens, i)) =>
                  LET p == MergedIndex(tokens, i) IN
                  /\ merged[p] = tokens[i]
                  /\ (1 < i /\ i < Len(tokens)) =>
                        /\ merged[p - 1].type = Kind
                        /\ merged[p + 1].type = Kind
                        /\ IsSuffix(Trim(tokens[i - 1].value), merged[p - 1].value)
                        /\ IsPrefix(Trim(tokens[i + 1].value), merged[p + 1].value)
        /\ \A p \in 1..Len(merged) :
              merged[p].type = "text" =>
                  \E i \in 1..Len(tokens) :
                      ~IsSeparator(tokens, i) /\ MergedIndex(tokens, i) = p
        /\ out = Flatten([p \in 1..Len(merged) |->
                     IF merged[p].type = "text" THEN merged[p].value
                     ELSE Open(Kind) \o merged[p].value \o Close(Kind)])

\* text with a non-blank character and a blank beside it between two spans
C3_Witness ==
    /\ pc = "merged"
    /\ \E i \in 2..(Len(tokens) - 1) :
          /\ tokens[i].type = "text" /\ ~IsBlank(tokens[i].value)
          /\ tokens[i].value # Trim(tokens[i].value)
          /\ tokens[i - 1].type = Kind /\ tokens[i + 1].type = Kind
    /\ Len(merged) = Len(tokens)
    /\ Contains(out, tokens[2].value)

\* C4: the text returned by postProcessPandocOutput holds neither the open
\* nor the close sentinel, for both target formats.
C4_NoSentinelLeft ==
    pc = "posted" =>
        ~Contains(out, SENTINEL_PRE) /\ ~Contains(out, SENTINEL_POST)

\* sentinels went in, unbalanced ones too, and the merge pass removed a
\* separator
C4_Witness ==
    /\ pc = "posted"
    /\ Contains(text, SENTINEL_PRE) /\ Contains(text, SENTINEL_POST)
    /\ Len(merged) < Len(tokens)
    /\ \E i \in 1..Len(merged) :
          merged[i].type = "text" /\ ~IsBlank(merged[i].value)

(***************************************************************************)
(* Claims about the sentinel injector.                                     *)
(***************************************************************************)
RECURSIVE AllPaths(_)
AllPaths(n) ==
    {<<>>} \cup UNION {{<<i>> \o q : q \in AllPaths(n.kids[i])} : i \in 1..Len(n.kids)}

RECURSIVE NodeAt(_, _)
NodeAt(n, path) == IF path = <<>> THEN n ELSE NodeAt(n.kids[Head(path)], Tail(path))

Front(path) == SubSeq(path, 1, Len(path) - 1)

\* the objects that are elements of the w:r array of some object
RunPaths(tree) ==
    {p \in AllPaths(tree) :
        /\ Len(p) >= 2
        /\ NodeAt(tree, p).t = "obj"
        /\ NodeAt(tree, Front(p)).t = "arr"
        /\ NodeAt(tree, Front(Front(p))).t = "obj"
        /\ NodeAt(tree, Front(Front(p))).keys[p[Len(p) - 1]] = "w:r"}

\* the visible-text leaves a run holds itself
OwnText(run) ==
    IF \E i \in 1..Len(run.keys) : run.keys[i] = "w:t"
    THEN LET v == run.kids[CHOOSE i \in 1..Len(run.keys) : run.keys[i] = "w:t"]
         IN  IF v.t = "arr" THEN v.kids ELSE <<v>>
    ELSE <<>>

\* every leaf under a node with the element names that lead to it
RECURSIVE LeavesOf(_, _)
LeavesOf(n, names) ==
    IF n.t = "str" THEN <<[names |-> names, s |-> n.s]>>
    ELSE IF n.t = "arr"
    THEN Flatten([i \in 1..Len(n.kids) |-> LeavesOf(n.kids[i], names)])
    ELSE Flatten([i \in 1..Len(n.kids) |-> LeavesOf(n.kids[i], Append(names, n.keys[i]))])

RECURSIVE IsSubsequence(_, _)
IsSubsequence(a, b) ==
    IF a = <<>> THEN TRUE
    ELSE IF b = <<>> THEN FALSE
    ELSE IF Head(a) = Head(b) THEN IsSubsequence(Tail(a), Tail(b))
    ELSE IsSubsequence(a, Tail(b))

\* the text of one field-instruction leaf
FragmentText(leaf) ==
    IF leaf.t = "str" THEN leaf.s
    ELSE IF \E i \in 1..Len(leaf.keys) : leaf.keys[i] = "_"
    THEN leaf.kids[CHOOSE i \in 1..Len(leaf.keys) : leaf.keys[i] = "_"].s
    ELSE <<>>

FragmentsUnder(v) ==
    IF v.t = "arr" THEN [i \in 1..Len(v.kids) |-> FragmentText(v.kids[i])]
    ELSE <<FragmentText(v)>>

\* the fragments F1..Fn of a run, in document order
RECURSIVE DocumentOrder(_)
DocumentOrder(n) ==
    IF n.t = "str" THEN <<>>
    ELSE IF n.t = "arr"
    THEN Flatten([i \in 1..Len(n.kids) |-> DocumentOrder(n.kids[i])])
    ELSE Flatten([i \in 1..Len(n.kids) |->
             (IF n.keys[i] = "w:instrText" THEN FragmentsUnder(n.kids[i]) ELSE <<>>)
             \o DocumentOrder(n.kids[i])])

\* the fragments F1..Fn of a run, a node's own ones before those nested in
\* its children
RECURSIVE OwnFirstOrder(_)
OwnFirstOrder(n) ==
    IF n.t = "str" THEN <<>>
    ELSE IF n.t = "arr"
    THEN Flatten([i \in 1..Len(n.kids) |-> OwnFirstOrder(n.kids[i])])
    ELSE Flatten([i \in 1..Len(n.kids) |->
             IF n.keys[i] = "w:instrText" THEN FragmentsUnder(n.kids[i]) ELSE <<>>])
         \o Flatten([i \in 1..Len(n.kids) |-> OwnFirstOrder(n.kids[i])])

Wrapped(s) == Str(SENTINEL_PRE \o s \o SENTINEL_POST)

RunBefore(p) == NodeAt(xml, p)
RunAfter(p) == NodeAt(xmlOut, p)

LeavesKept(p) == IsSubsequence(LeavesOf(RunBefore(p), <<>>), LeavesOf(RunAfter(p), <<>>))

Gained(p) == Len(OwnText(RunAfter(p))) - Len(OwnText(RunBefore(p)))

IsWrapped(leaf) ==
    /\ leaf.t = "str"
    /\ IsPrefix(SENTINEL_PRE, leaf.s) /\ IsSuffix(SENTINEL_POST, leaf.s)
    /\ Len(leaf.s) >= Len(SENTINEL_PRE) + Len(SENTINEL_POST)

GainsOne(p) ==
    /\ Gained(p) = 1
    /\ IsWrapped(OwnText(RunAfter(p))[Len(OwnText(RunAfter(p)))])

\* C6 as stated: every run gains at most one sentinel leaf, and a run with
\* k >= 1 field-instruction fragments gains exactly one, nested runs too.
C6_OnePerRunWithFragments ==
    pc = "injected" =>
        /\ RunPaths(xmlOut) = RunPaths(xml)
        /\ \A p \in RunPaths(xml) :
              /\ Gained(p) \in {0, 1}
              /\ DocumentOrder(RunBefore(p)) # <<>> => GainsOne(p)

\* C6 amended: every run gains at most one sentinel leaf; a run gains
\* exactly one if at least one of its field-instruction fragments has a
\* non-blank text, and none otherwise; nested runs too.
C6_OnePerRunWithText ==
    pc = "injected" =>
        /\ RunPaths(xmlOut) = RunPaths(xml)
        /\ \A p \in RunPaths(xml) :
              LET F == DocumentOrder(RunBefore(p)) IN
              IF \E i \in 1..Len(F) : ~IsBlank(F[i])
              THEN GainsOne(p)
              ELSE Gained(p) = 0

\* a run with a two-fragment instruction and a run nested under a run have
\* each gained one leaf
C6_Witness ==
    /\ pc = "injected"
    /\ \E p, q \in RunPaths(xml) :
          /\ Len(SelectSeq(DocumentOrder(RunBefore(p)), NonEmpty)) >= 2
          /\ GainsOne(p)
          /\ Len(q) > Len(p) /\ SubSeq(q, 1, Len(p)) = p
          /\ GainsOne(q)

(***************************************************************************)
(* Claims about the path mapping and the reconciliation of the batch run.  *)
(***************************************************************************)
UnderRoot(p) == Len(p) >= 2 /\ Head(p) = MIRROR
AtRoot(p) == Len(p) = 2 /\ Head(p) = MIRROR
Below(p) == Len(p) >= 3 /\ Head(p) = MIRROR

\* the way back: the source root for the output root, the document
\* extension for the format's extension
SourcePathFor(mirrorPath, f) ==
    LET rel == Tail(mirrorPath)
        name == Last(rel)
    IN  <<SNIPPETS>> \o SubSeq(rel, 1, Len(rel) - 1)
          \o <<IF name.ext = outputExtensionFor(f)
                THEN Seg(name.stem, ".docx") ELSE name>>

\* C7: for a fixed format, two distinct enumerated source documents never
\* have the same mirror path, and substituting root and extension back in
\* the mirror path gives the source path again.
C7_MappingInjective ==
    pc # "main" =>
        \A d1, d2 \in Range(docxFiles) :
            /\ mirrorPathForDocx(d1, format) = mirrorPathForDocx(d2, format) => d1 = d2
            /\ mirrorPathForDocxBatch(d1, format) = mirrorPathForDocxBatch(d2, format) => d1 = d2
            /\ SourcePathFor(mirrorPathForDocx(d1, format), format) = d1

Image(docs, f) == {mirrorPathForDocxBatch(d, f) : d \in docs}

CurrentSources ==
    {p \in files : Head(p) = SNIPPETS /\ toLowerCase(Last(p).ext) = ".docx"}

\* C8 as stated: after reconciliation the files with the format's
\* extension under the output root are exactly the mirrors of the current
\* source documents.
C8_MirrorsAreExactlyTheImage ==
    pc = "reconciled" =>
        listMirrorFiles(files, dirs, format) = Image(CurrentSources, format)

\* C8: after reconciliation every file with the format's extension (in any
\* letter case) that lies in a sub-directory of the output root is the
\* mirror of an enumerated source document, and every enumerated document
\* whose conversion did not fail has its mirror file.
C8_DeepMirrorsHaveSources ==
    pc = "reconciled" =>
        /\ \A p \in listMirrorFiles(files, dirs, format) :
              Below(p) => p \in Image(Range(docxFiles), format)
        /\ \A d \in Range(docxFiles) \ {f.docxPath : f \in Range(failures)} :
              mirrorPathForDocxBatch(d, format) \in files

\* a run with a failed and a successful conversion in which a stale mirror
\* was deleted and a mirror of a live document was kept
C8_Witness ==
    /\ pc = "reconciled"
    /\ failures # <<>>
    /\ Len(failures) < Len(docxFiles)
    /\ \E p \in unlinked : Below(p) /\ p \notin files
    /\ \E p \in listMirrorFiles(files, dirs, format) : Below(p)

\* C9: after reconciliation no directory under the output root other than
\* the root itself is empty.
C9_NoEmptyDirectoryLeft ==
    pc = "reconciled" =>
        \A d \in dirs : UnderRoot(d) => readdir(files, dirs, d) # {}

\* C10: the reconciliation step deletes no file that lies directly in the
\* output root and does not delete the output root.
C10_RootLevelKept ==
    [][pc = "convert" /\ pc' = "reconciled" =>
          /\ \A p \in files : AtRoot(p) => p \in files'
          /\ <<MIRROR>> \in dirs'
          /\ \A p \in unlinked' : Below(p)]_vars

\* a reconciliation that deleted a stale mirror in a sub-directory and kept
\* a root-level file with the format's extension that no document maps to
C10_Witness ==
    /\ pc = "reconciled"
    /\ \E p \in unlinked : Below(p)
    /\ \E p \in listMirrorFiles(files, dirs, format) :
          AtRoot(p) /\ p \notin Image(Range(docxFiles), format)
    /\ \E p \in files : AtRoot(p) /\ p \in Image(Range(docxFiles), format)

\* C11: without the clean flag a file under the output root disappears only
\* in the reconciliation step, and only if no source document that exists
\* maps to it; the mirror of an existing source is never deleted, even when
\* the conversion of that source failed in the same run.
C11_DeletedOnlyWhenSourceGone ==
    [][~clean =>
          \A p \in files :
              UnderRoot(p) /\ p \notin files' =>
                  /\ pc = "convert" /\ pc' \in {"reconciled", "crashed"}
                  /\ reconcileRuns' = reconcileRuns + 1
                  /\ p \notin Image(CurrentSources, format)
                  /\ p \notin {mirrorPathForDocx(d, format) : d \in CurrentSources}]_vars

\* a run without the clean flag in which every conversion failed, the
\* mirror a failed document had before is still there in a sub-directory,
\* and the reconciler deleted a stale mirror
C11_Witness ==
    /\ pc = "reconciled"
    /\ ~clean
    /\ attempts # <<>>
    /\ \A i \in 1..Len(attempts) : attempts[i].threw
    /\ \E x \in Range(failures) :
          /\ Below(mirrorPathForDocxBatch(x.docxPath, format))
          /\ mirrorPathForDocxBatch(x.docxPath, format) \in files
    /\ \E p \in unlinked : Below(p) /\ p \notin files /\ p \notin dirs

DocsOf(seq) == [i \in 1..Len(seq) |-> seq[i].docxPath]
Threw(a) == a.threw

\* what C13 says of the loop: every enumerated document was attempted, in
\* order, whatever failed before, and the failure list holds one entry for
\* each attempt that threw and no other
EveryDocumentAttempted ==
    /\ DocsOf(attempts) = docxFiles
    /\ DocsOf(failures) = DocsOf(SelectSeq(attempts, Threw))
    /\ \A i \in 1..Len(failures) : failures[i].error # ""

C14_ReconcilerOnceAfterLoop ==
    /\ reconcileRuns <= 1
    /\ reconcileRuns = 1 => DocsOf(attempts) = docxFiles /\ idx > Len(docxFiles)
    /\ pc \in {"reconciled", "crashed"} => reconcileRuns = 1
    /\ pc = "exited" /\ exitCode # 2 => reconcileRuns = 1

\* a finished run in which two or more documents were enumerated, all of
\* them failed and the reconciler ran
C14_Witness ==
    /\ pc = "exited"
    /\ Len(docxFiles) >= 2
    /\ Len(failures) = Len(docxFiles)
    /\ reconcileRuns = 1
    /\ reported

\* C18: when the deletion of one stale mirror fails, every other stale
\* mirror is still deleted and the run still prints its per-document
\* summary.
C18_ReconcileBestEffort ==
    pc = "exited" /\ rmError # <<>> =>
        /\ StaleMirrors(files, dirs, docxFiles, format) \subseteq {rmError}
        /\ reported

\* C19: when snippets/ does not exist the run ends at once with a failure
\* status: no directory or file is created or removed, no document is
\* attempted and the reconciler is not called.
C19_NoSourceRootNoEffect ==
    [][pc = "main" /\ <<SNIPPETS>> \notin dirs =>
          /\ pc' = "exited"
          /\ exitCode' \notin {-1, 0}
          /\ files' = files /\ dirs' = dirs
          /\ attempts' = <<>> /\ reconcileRuns' = 0 /\ unlinked' = {}]_vars

\* a run with --clean that ended for want of snippets/ while the output
\* root held sub-directories the clean step would have removed
C19_Witness ==
    /\ pc = "exited"
    /\ exitCode = 2
    /\ clean
    /\ <<SNIPPETS>> \notin dirs
    /\ \E p \in files : Below(p)

(***************************************************************************)
(* Claims about the single-document flow.                                  *)
(***************************************************************************)
Called == pc = "call" /\ pc' # "call"
Ended == pc \in {"returned", "threw"}

MirrorSame(path) ==
    /\ path \in files' <=> path \in files
    /\ path \in files => contents'[path] = contents[path]

\* C15: one call spawns the converter at most once; when the converter
\* cannot be launched the call throws the launch error, when it ends with
\* a non-zero or missing status the call throws an error with the status
\* and the captured stderr, and in both cases the mirror file is neither
\* written nor overwritten.
C15_ConverterFailureFailsAttempt ==
    [][Called =>
          /\ spawns' <= spawns + 1
          /\ spawns' = spawns + 1 /\ env.pandoc # "ok" =>
                /\ pc' = "threw"
                /\ env.pandoc = "launch" => result'.error = spawnSync(env).error
                /\ env.pandoc # "launch" =>
                      /\ result'.error.name = "pandoc failed"
                      /\ result'.error.status = spawnSync(env).status
                      /\ result'.error.status # "0"
                      /\ result'.error.stderr = spawnSync(env).stderr
                /\ MirrorSame(result'.mirrorPath)]_vars

\* a call in which the converter ran, exited with status 1 and the mirror
\* file of an earlier run is still there with its old content
C15_Witness ==
    /\ pc = "threw"
    /\ spawns = 1
    /\ env.pandoc = "exit1"
    /\ result.error = Error("pandoc failed", "1", "diagnostics")
    /\ result.mirrorPath \in files
    /\ contents[result.mirrorPath] = OldText

\* C16: a call with the debug flag set ends as the same call with the flag
\* unset would (both return or both throw) and leaves the same mirror
\* file, also when the debug file cannot be written.
C16_DebugFlagNoEffect ==
    [][Called =>
          LET other == generateSnippetMirror(files, dirs, contents, tmpFiles,
                                             request, format, ~debugXml, env)
              mirrorPath == result'.mirrorPath
          IN  /\ other.result.status = result'.status
              /\ mirrorPath \in other.files <=> mirrorPath \in files'
              /\ mirrorPath \in files' =>
                    other.contents[mirrorPath] = contents'[mirrorPath]]_vars

\* is the requested path, once resolved, inside snippets/
UnderSourceRoot(path) ==
    Len(pathJoin(path)) >= 2 /\ Head(pathJoin(path)) = SNIPPETS

\* C17: a call with a path that is not under snippets/ throws the
\* invalid-path error and has by then created no directory, no file, no
\* temporary archive and no converter process.
C17_InvalidPathRejected ==
    [][Called /\ ~UnderSourceRoot(request) =>
          /\ pc' = "threw"
          /\ result'.error.name = "Expected path under snippets/"
          /\ dirs' = dirs /\ files' = files
          /\ result'.tempDocxPath = ""
          /\ spawns' = spawns]_vars

(***************************************************************************)
(* Claims about the tree walk.                                             *)
(***************************************************************************)
ObjectPaths(tree) == {p \in AllPaths(tree) : isObject(NodeAt(tree, p))}

\* C20: the visitor is called exactly once on every mapping of the tree
\* the walk leaves behind (the mappings the visitor added or put in place
\* of a leaf included), never on a sequence or a leaf, and on a mapping
\* before it is called on anything below it.
C20_EveryMappingOncePreOrder ==
    pc = "visited" =>
        /\ Range(calls) = ObjectPaths(xmlOut)
        /\ Len(calls) = Cardinality(ObjectPaths(xmlOut))
        /\ \A i, j \in 1..Len(calls) :
              i < j => ~IsPrefix(calls[j], calls[i])

\* a walk whose visitor added a mapping to an object and put a mapping in
\* the place of a leaf, and both were visited after the object itself
C20_Witness ==
    /\ pc = "visited"
    /\ visitor = "grow"
    /\ \E i, j \in 1..Len(calls) :
          /\ i < j
          /\ IsPrefix(calls[i], calls[j])
          /\ calls[j] \notin AllPaths(xml)
    /\ \E i, j \in 1..Len(calls) :
          /\ i < j
          /\ IsPrefix(calls[i], calls[j])
          /\ calls[j] \in AllPaths(xml)
          /\ ~isObject(NodeAt(xml, calls[j]))
    /\ \E p \in AllPaths(xmlOut) : isArray(NodeAt(xmlOut, p)) /\ p \notin Range(calls)

(***************************************************************************)
(* Claims about the order of the batch loop.                               *)
(***************************************************************************)
\* a step in which a call of generateSnippetMirror begins, writes its
\* temporary archive or starts the converter
FlowActs ==
    \/ inFlight' \ inFlight # {}
    \/ tmpFiles' \ tmpFiles # {}
    \/ spawns' > spawns

MissingPayload == Error("Could not find word/document.xml inside docx.", "", "")

\* the call reaches the test of line 250: its path is accepted, the source
\* can be read, and the archive has no word/document.xml
CalledWithoutPayload ==
    /\ Called
    /\ StartsWithSnippets(request)
    /\ pathJoin(request) \in files
    /\ env.readable
    /\ ~env.payload

\* C22: when the source archive has no word/document.xml entry the call
\* throws the missing-payload error, and by then no temporary archive and
\* no debug file was created, the converter was not started and no mirror
\* was written: the files and their contents are what they were.
C22_MissingPayloadStopsEarly ==
    [][CalledWithoutPayload =>
          /\ pc' = "threw"
          /\ result'.error = MissingPayload
          /\ result'.tempDocxPath = ""
          /\ tmpFiles' = tmpFiles
          /\ pathJoin(DebugPathFor(request)) \notin files'
          /\ spawns' = spawns
          /\ files' = files
          /\ contents' = contents]_vars

\* a call with the debug flag set, for a document that has a mirror, threw
\* the missing-payload error although everything else would have worked
C22_Witness ==
    /\ pc = "threw"
    /\ result.error = MissingPayload
    /\ debugXml
    /\ env.debugWritable /\ env.tmpWritable /\ env.pandoc = "ok" /\ env.mirrorWritable
    /\ result.mirrorPath \in files

(***************************************************************************)
(* More claims about the merge pass, the post-processor and the injector.  *)
(***************************************************************************)
\* C23: mergeAdjacentCodeSpans merges two code spans with no character
\* between them into one span, as it does two spans separated by blank
\* text: no code span of the result is followed at once by another.
C23_AdjacentSpansMerged ==
    (pc = "merged" /\ format = "gfm") =>
        \A p \in 1..(Len(merged) - 1) :
            ~(merged[p].type = "code" /\ merged[p + 1].type = "code")

\* the run has field-instruction fragments and every one of them is blank
AllBlank(F) == F # <<>> /\ \A i \in 1..Len(F) : IsBlank(F[i])

\* C24: a run whose field-instruction fragments are all empty or
\* whitespace-only is after injection exactly what it was, and no leaf of
\* the tree is a sentinel pair with nothing between the sentinels.
C24_BlankInstructionLeavesRunAlone ==
    pc = "injected" =>
        /\ \A p \in RunPaths(xml) :
              AllBlank(DocumentOrder(RunBefore(p))) => RunAfter(p) = RunBefore(p)
        /\ \A p \in AllPaths(xmlOut) : NodeAt(xmlOut, p) # Wrapped(<<>>)

\* a run with visible text and a whitespace-only fragment was left alone
\* while the run beside it gained its sentinel
C24_Witness ==
    /\ pc = "injected"
    /\ \E p, q \in RunPaths(xml) :
          /\ AllBlank(DocumentOrder(RunBefore(p)))
          /\ \E i \in 1..Len(DocumentOrder(RunBefore(p))) :
                DocumentOrder(RunBefore(p))[i] # <<>>
          /\ OwnText(RunBefore(p)) # <<>>
          /\ RunAfter(p) = RunBefore(p)
          /\ GainsOne(q)

\* the field-instruction leaves: the elements of a w:instrText array
InstrLeafPaths(tree) ==
    {l \in AllPaths(tree) :
        /\ Len(l) >= 2
        /\ NodeAt(tree, Front(l)).t = "arr"
        /\ NodeAt(tree, Front(Front(l))).t = "obj"
        /\ NodeAt(tree, Front(Front(l))).keys[l[Len(l) - 1]] = "w:instrText"}

\* the runs that gained a sentinel leaf which holds the text of leaf l
SentinelsHolding(l) ==
    {p \in RunPaths(xml) :
        /\ IsPrefix(p, l)
        /\ Gained(p) = 1
        /\ Contains(OwnText(RunAfter(p))[Len(OwnText(RunAfter(p)))].s,
                    Trim(CollapseWhiteSpace(FragmentText(NodeAt(xml, l)))))}

\* C25: the text of every field-instruction leaf that is not blank is
\* held by exactly one injected sentinel leaf of the mutated tree, also
\* when the run of the leaf is nested in another run.
C25_EachInstructionInOneSentinel ==
    pc = "injected" =>
        \A l \in InstrLeafPaths(xml) :
            ~IsBlank(FragmentText(NodeAt(xml, l))) =>
                Cardinality(SentinelsHolding(l)) = 1

HasSentinel(raw) == Contains(raw, SENTINEL_PRE) \/ Contains(raw, SENTINEL_POST)

\* C26: for raw converter output with no sentinel in it,
\* postProcessPandocOutput returns the text as it is, for both formats.
C26_NoSentinelNoChange ==
    (pc = "posted" /\ ~HasSentinel(text)) => out = text

(***************************************************************************)
(* More claims about the mirror path and the mirror tree.                  *)
(***************************************************************************)
\* C27: for every path generateSnippetMirror accepts, the mirror path it
\* computes lies under snippets-mirror/, and the call creates no directory
\* and no file outside it, the debug file beside the source excepted.
C27_MirrorPathInsideOutputRoot ==
    [][(Called /\ StartsWithSnippets(request)) =>
          /\ UnderRoot(result'.mirrorPath)
          /\ \A d \in dirs' \ dirs : Head(d) = MIRROR
          /\ \A f \in files' \ files :
                UnderRoot(f) \/ f = pathJoin(DebugPathFor(request))]_vars

\* the path generateSnippetMirror writes the mirror of docx to when the
\* batch calls it with its format (part_001 440-441)
WrittenPathFor(docx) == mirrorPathForDocx(docx, normalizeFormat(format))

\* the step in which removeStaleMirrors runs
Reconciles == pc = "convert" /\ pc' \in {"reconciled", "crashed"}

\* C28: for every enumerated document and every requested format, the
\* path generateSnippetMirror writes to is the path removeStaleMirrors
\* expects, and no mirror written in the run is removed by the
\* reconciliation of the run.
C28_WrittenPathIsExpectedPath ==
    [][Reconciles =>
          \A i \in 1..Len(attempts) :
              LET docx == attempts[i].docxPath IN
              /\ WrittenPathFor(docx) = mirrorPathForDocxBatch(docx, format)
              /\ ~attempts[i].threw =>
                    /\ WrittenPathFor(docx) \in files
                    /\ WrittenPathFor(docx) \in files']_vars

\* a run for a format name pandoc does not know removed a stale mirror and
\* kept the mirrors it wrote for a document in a sub-directory and for one
\* whose extension is in capitals
C28_Witness ==
    /\ pc = "reconciled"
    /\ format = "rst"
    /\ unlinked \cap files = {} /\ \E p \in unlinked : p \notin dirs
    /\ \E i, j \in 1..Len(attempts) :
          /\ ~attempts[i].threw /\ ~attempts[j].threw
          /\ Len(attempts[i].docxPath) >= 3
          /\ Last(attempts[j].docxPath).ext = ".DOCX"
          /\ WrittenPathFor(attempts[i].docxPath) \in files
          /\ WrittenPathFor(attempts[j].docxPath) \in files
          /\ Last(WrittenPathFor(attempts[i].docxPath)).ext = ".md"

\* the call threw an archive, markup or converter error
FailedBeforeWrite ==
    /\ pc' = "threw"
    /\ result'.error.name # "mirror write failed"

\* C29: when generateSnippetMirror fails for an accepted document with an
\* archive, markup or converter error, the mirror file of that document is
\* there or not as before and holds what it held; the mirror changes only
\* in a call that returns, after the converter ended with status 0, and
\* then holds the post-processed converter output.
C29_FailureKeepsOldMirror ==
    [][(Called /\ StartsWithSnippets(request)) =>
          LET mirrorPath == mirrorPathForDocx(request, normalizeFormat(format)) IN
          /\ FailedBeforeWrite => MirrorSame(mirrorPath)
          /\ ~MirrorSame(mirrorPath) =>
                /\ pc' = "returned"
                /\ env.pandoc = "ok"
                /\ contents'[mirrorPath] =
                      postProcessPandocOutput(env.stdout, normalizeFormat(format))]_vars

\* the converter ran on the rebuilt archive and failed, and the mirror the
\* document had before still holds its old text
C29_Witness ==
    /\ pc = "threw"
    /\ result.error.name = "pandoc failed"
    /\ spawns = 1
    /\ env.stdout # <<>>
    /\ result.mirrorPath \in files
    /\ contents[result.mirrorPath] = OldText

\* the files and directories under snippets-mirror/
MirrorTree(fileSet, dirSet) ==
    {p \in fileSet \cup dirSet : Len(p) >= 2 /\ Head(p) = MIRROR}

\* C30: a call of generateSnippetMirror that throws leaves the mirror
\* tree as it was: no new file and no new directory under the output root.
C30_FailureLeavesMirrorTreeAlone ==
    [][(Called /\ pc' = "threw") =>
          MirrorTree(files', dirs') = MirrorTree(files, dirs)]_vars

====
